---- MODULE Spec2Model ----
(***************************************************************************)
(* Model of the Lider scraper (Gutska90/Planner).                          *)
(*                                                                         *)
(* Part 1: text helpers and SnacksYPicoteoSpider._extract_product_data /   *)
(*         parse_products, as pure operators over character sequences.     *)
(* Part 2: SnacksYPicoteoSpider._process_all_pages_with_pagination as a    *)
(*         state machine over a driver (the browser), a site and the       *)
(*         generator's position.                                           *)
(*                                                                         *)
(* A Python str is a sequence of one-character strings.  None is the       *)
(* value None below, which is no such sequence.                            *)
(*                                                                         *)
(* Block structure of lines 427-491 of snacks-y-picoteo_spider.py: lines   *)
(* 432-466 are indented one level short in the file.  The keywords are     *)
(* paired the only way the surrounding indentation allows: the `try` of    *)
(* line 427 encloses lines 429-478 and is closed by the `except` of line   *)
(* 479; the scroll and `page_number += 1` of lines 468-478 follow the      *)
(* URL check of lines 454-466 inside that `try`.                           *)
(***************************************************************************)
EXTENDS Integers, Sequences, FiniteSets, TLC

(***************************************************************************)
(* Python values                                                           *)
(***************************************************************************)
None == <<"None">>

Truthy(s) == s # None /\ s # <<>>

IsSpace(c) == c \in {" ", "\n", "\t"}

IsDigit(c) == c \in {"0", "1", "2", "3", "4", "5", "6", "7", "8", "9"}

DigitVal(c) ==
    CASE c = "0" -> 0 [] c = "1" -> 1 [] c = "2" -> 2 [] c = "3" -> 3
      [] c = "4" -> 4 [] c = "5" -> 5 [] c = "6" -> 6 [] c = "7" -> 7
      [] c = "8" -> 8 [] c = "9" -> 9

RECURSIVE LStrip(_)
LStrip(s) == IF s # <<>> /\ IsSpace(Head(s)) THEN LStrip(Tail(s)) ELSE s

RECURSIVE RStrip(_)
RStrip(s) ==
    IF s # <<>> /\ IsSpace(s[Len(s)]) THEN RStrip(SubSeq(s, 1, Len(s) - 1)) ELSE s

\* str.strip()
Strip(s) == RStrip(LStrip(s))

\* re.sub(r"\s+", " ", text): every maximal run of whitespace becomes one space
RECURSIVE CollapseSpace(_)
CollapseSpace(s) ==
    IF s = <<>> THEN <<>>
    ELSE IF IsSpace(Head(s))
         THEN <<" ">> \o CollapseSpace(LStrip(s))
         ELSE <<Head(s)>> \o CollapseSpace(Tail(s))

\* _clean_text
CleanText(text) ==
    IF ~Truthy(text) THEN None
    ELSE LET t == Strip(CollapseSpace(text))
         IN  IF t = <<>> THEN None ELSE t

\* XPath normalize-space(): strip and collapse; the empty string when nothing is selected
NormalizeSpace(s) == Strip(CollapseSpace(s))

\* sep.join(parts)
RECURSIVE Join(_, _)
Join(sep, parts) ==
    IF parts = <<>> THEN <<>>
    ELSE IF Len(parts) = 1 THEN parts[1]
    ELSE parts[1] \o sep \o Join(sep, Tail(parts))

\* str.split(sep) for a one-character separator
RECURSIVE SplitAcc(_, _, _)
SplitAcc(s, sep, cur) ==
    IF s = <<>> THEN <<cur>>
    ELSE IF Head(s) = sep THEN <<cur>> \o SplitAcc(Tail(s), sep, <<>>)
    ELSE SplitAcc(Tail(s), sep, Append(cur, Head(s)))

Split(s, sep) == SplitAcc(s, sep, <<>>)

\* str.replace(ch, "") for a one-character ch
RECURSIVE RemoveChar(_, _)
RemoveChar(s, ch) ==
    IF s = <<>> THEN <<>>
    ELSE IF Head(s) = ch THEN RemoveChar(Tail(s), ch)
    ELSE <<Head(s)>> \o RemoveChar(Tail(s), ch)

RECURSIVE MapStrip(_)
MapStrip(parts) ==
    IF parts = <<>> THEN <<>> ELSE <<Strip(Head(parts))>> \o MapStrip(Tail(parts))

RECURSIVE DropEmpty(_)
DropEmpty(parts) ==
    IF parts = <<>> THEN <<>>
    ELSE IF Head(parts) # <<>> THEN <<Head(parts)>> \o DropEmpty(Tail(parts))
    ELSE DropEmpty(Tail(parts))

\* " ".join(t.strip() for t in texts if t.strip())
JoinStripped(texts) == Join(<<" ">>, DropEmpty(MapStrip(texts)))

(***************************************************************************)
(* The money pattern  \$\s?\d{1,3}(?:\.\d{3})*                             *)
(***************************************************************************)
MaxDigitsHead == 3

GroupDigits == 3

\* number of digits at s[i..], at most n
RECURSIVE DigitRun(_, _, _)
DigitRun(s, i, n) ==
    IF n = 0 \/ i > Len(s) \/ ~IsDigit(s[i]) THEN 0
    ELSE 1 + DigitRun(s, i + 1, n - 1)

\* end (exclusive) of the greedy (?:\.\d{3})* starting at i
RECURSIVE GroupsEnd(_, _)
GroupsEnd(s, i) ==
    IF i <= Len(s) /\ s[i] = "." /\ DigitRun(s, i + 1, GroupDigits) = GroupDigits
    THEN GroupsEnd(s, i + 1 + GroupDigits)
    ELSE i

\* end (exclusive) of the match that starts at i, or 0 when there is none
MoneyMatchEnd(s, i) ==
    IF i > Len(s) \/ s[i] # "$" THEN 0
    ELSE LET k == IF i + 1 <= Len(s) /\ IsSpace(s[i + 1]) THEN i + 2 ELSE i + 1
             d == DigitRun(s, k, MaxDigitsHead)
         IN  IF d = 0 THEN 0 ELSE GroupsEnd(s, k + d)

\* re.findall(pattern, s): leftmost, non-overlapping matches from position i on
RECURSIVE FindAllFrom(_, _)
FindAllFrom(s, i) ==
    IF i > Len(s) THEN <<>>
    ELSE LET e == MoneyMatchEnd(s, i)
         IN  IF e = 0 THEN FindAllFrom(s, i + 1)
             ELSE <<SubSeq(s, i, e - 1)>> \o FindAllFrom(s, e)

FindAllMoney(s) == FindAllFrom(s, 1)

(***************************************************************************)
(* int(num_str): Python strips surrounding whitespace; anything but digits *)
(* raises ValueError, reported here as -1.                                 *)
(***************************************************************************)
RECURSIVE DigitsValue(_, _)
DigitsValue(s, acc) ==
    IF s = <<>> THEN acc ELSE DigitsValue(Tail(s), acc * 10 + DigitVal(Head(s)))

PyInt(s) ==
    LET t == Strip(s)
    IN  IF t # <<>> /\ \A i \in 1..Len(t) : IsDigit(t[i]) THEN DigitsValue(t, 0) ELSE -1

\* [p.replace(" ", "") for p in prices if p.strip()]
RECURSIVE StripSpaces(_)
StripSpaces(prices) ==
    IF prices = <<>> THEN <<>>
    ELSE IF Strip(Head(prices)) # <<>>
         THEN <<RemoveChar(Head(prices), " ")>> \o StripSpaces(Tail(prices))
         ELSE StripSpaces(Tail(prices))

InSeq(x, s) == \E i \in 1..Len(s) : s[i] = x

\* lines 733-739: drop repeats, keep the first-seen order
RECURSIVE UniqueAcc(_, _)
UniqueAcc(prices, acc) ==
    IF prices = <<>> THEN acc
    ELSE IF InSeq(Head(prices), acc) THEN UniqueAcc(Tail(prices), acc)
    ELSE UniqueAcc(Tail(prices), Append(acc, Head(prices)))

UniquePrices(prices) == UniqueAcc(prices, <<>>)

\* lines 745-752: (int(num_str), price_str) for each literal whose int() does not raise
RECURSIVE PriceValues(_)
PriceValues(unique_prices) ==
    IF unique_prices = <<>> THEN <<>>
    ELSE LET price_str == Head(unique_prices)
             num_str == RemoveChar(RemoveChar(price_str, "$"), ".")
             v == PyInt(num_str)
         IN  IF v < 0 THEN PriceValues(Tail(unique_prices))
             ELSE <<<<v, price_str>>>> \o PriceValues(Tail(unique_prices))

\* insert x into the sorted list after every element whose key is <= x's key
RECURSIVE InsertStable(_, _)
InsertStable(sorted, x) ==
    IF sorted = <<>> THEN <<x>>
    ELSE IF Head(sorted)[1] <= x[1] THEN <<Head(sorted)>> \o InsertStable(Tail(sorted), x)
    ELSE <<x>> \o sorted

SortByValueUnsorted(pv) == pv

\* the order list.sort(key=lambda x: x[0]) leaves: ascending, ties in their input order
RECURSIVE SortAcc(_, _)
SortAcc(pv, acc) ==
    IF pv = <<>> THEN acc ELSE SortAcc(Tail(pv), InsertStable(acc, Head(pv)))

SortByValue(pv) == SortAcc(pv, <<>>)

\* lines 741-770: [price, discount_price] from the distinct literals
PricePair(unique_prices) ==
    IF Len(unique_prices) >= 2
    THEN LET price_values == SortByValue(PriceValues(unique_prices))
         IN  IF Len(price_values) >= 2
             THEN [price |-> price_values[Len(price_values)][2],
                   discount_price |-> price_values[1][2]]
             ELSE IF Len(price_values) = 1
             THEN [price |-> price_values[1][2], discount_price |-> price_values[1][2]]
             ELSE [price |-> unique_prices[1], discount_price |-> None]
    ELSE IF Len(unique_prices) = 1
    THEN [price |-> unique_prices[1], discount_price |-> unique_prices[1]]
    ELSE [price |-> None, discount_price |-> None]

(***************************************************************************)
(* A candidate node is what the selector library returns for the queries   *)
(* _extract_product_data puts to it:                                       *)
(*   tag        product_node.root.tag                                      *)
(*   href_self  ./@href                      (None when absent)            *)
(*   href_inner .//a[contains(@href,"/ip/")]/@href  (first, None if none)  *)
(*   texts      .//text()                    (the text nodes, in order)    *)
(*   sel        for each name selector, the index in texts of the first    *)
(*              text node it selects (0 when it selects nothing)           *)
(*   container  text nodes of the nearest product container (line 698)     *)
(*   near       text nodes of parent and grandparent (line 705)            *)
(*   div1       text nodes of ancestor::div[1] (line 725)                  *)
(* A URL is <<origin, path, page>> (page: the page query, 0 when none); a  *)
(* relative href has origin "".                                            *)
(***************************************************************************)
NumNameSelectors == 7

MinNameLen == 3

Absent == [present |-> FALSE, texts |-> <<>>]

Present(ts) == [present |-> TRUE, texts |-> ts]

\* urllib.parse.urljoin for an absolute-path or absolute href
UrlJoin(base, href) == IF href[1] = "" THEN <<base[1], href[2], href[3]>> ELSE href

HrefTruthy(href) == href # None /\ href # <<"", "", 0>>

\* lines 639-653
ProductUrl(node, category_url) ==
    LET href == IF node.tag = "a" THEN node.href_self
                ELSE IF HrefTruthy(node.href_inner) THEN node.href_inner
                ELSE node.href_self
    IN  IF HrefTruthy(href) THEN UrlJoin(category_url, href) ELSE None

\* normalize-space(selector) for the k-th name selector
SelectorText(node, k) ==
    IF node.sel[k] = 0 THEN <<>> ELSE NormalizeSpace(node.texts[node.sel[k]])

\* lines 675-679: the first selector, from k on, whose text is longer than 3 characters
RECURSIVE NameBySelectors(_, _)
NameBySelectors(node, k) ==
    IF k > NumNameSelectors THEN None
    ELSE LET name_text == SelectorText(node, k)
         IN  IF Truthy(name_text) /\ Len(name_text) > MinNameLen
             THEN CleanText(name_text)
             ELSE NameBySelectors(node, k + 1)

RECURSIVE LongParts(_)
LongParts(parts) ==
    IF parts = <<>> THEN <<>>
    ELSE LET t == Strip(Head(parts))
         IN  IF t # <<>> /\ Len(t) > MinNameLen THEN <<t>> \o LongParts(Tail(parts))
             ELSE LongParts(Tail(parts))

\* lines 681-687: first line of the node's text longer than 3 characters
NameByAllText(node) ==
    LET all_text == Join(<<" ">>, node.texts)
        name_parts == LongParts(Split(all_text, "\n"))
    IN  IF name_parts # <<>> THEN CleanText(name_parts[1]) ELSE None

\* string-value of the node: its text nodes concatenated
StringValue(node) == Join(<<>>, node.texts)

\* lines 655-689: item['name']
SinNombre == <<"S", "i", "n", " ", "n", "o", "m", "b", "r", "e">>

DeriveName(node) ==
    LET first == IF node.tag = "a"
                 THEN LET name_text == NormalizeSpace(StringValue(node))
                      IN  IF Truthy(name_text) /\ Len(name_text) > MinNameLen
                          THEN CleanText(name_text) ELSE None
                 ELSE NameBySelectors(node, 1)
        name == IF Truthy(first) THEN first ELSE NameByAllText(node)
    IN  IF Truthy(name) THEN name ELSE SinNombre

\* lines 691-716: item['raw_text']
RawText(node) ==
    IF node.tag = "a"
    THEN IF node.container.present
         THEN CleanText(JoinStripped(node.container.texts))
         ELSE CleanText(JoinStripped(node.texts) \o <<" ">> \o JoinStripped(node.near))
    ELSE CleanText(JoinStripped(node.texts))

\* lines 718-739: the distinct money literals, in first-seen order
MoneyLiterals(node) ==
    LET found == FindAllMoney(RawText(node))
        prices == IF found = <<>> /\ node.tag = "a" /\ node.div1.present
                  THEN FindAllMoney(JoinStripped(node.div1.texts))
                  ELSE found
    IN  UniquePrices(StripSpaces(prices))

NameIsValidAnyText(name) == Truthy(name)

\* lines 772-776: the item stands only with a real name
NameIsValid(name) == Truthy(name) /\ name # SinNombre

\* the None that stands for "no item" (a record, as the items are)
NoItem == [kind |-> "None"]

\* _extract_product_data: the item, or None.  re.findall on a raw_text of None
\* raises TypeError, which the handler of lines 778-780 turns into None.
ExtractProductData(node, category_url) ==
    IF RawText(node) = None THEN NoItem
    ELSE
    LET name == DeriveName(node)
        pp == PricePair(MoneyLiterals(node))
    IN  IF ~NameIsValid(name) THEN NoItem
        ELSE [kind |-> "product",
              category_url |-> category_url,
              product_url |-> ProductUrl(node, category_url),
              name |-> name,
              raw_text |-> RawText(node),
              price |-> pp.price,
              discount_price |-> pp.discount_price]

(***************************************************************************)
(* parse_products.  A page (the markup, as the selector library answers    *)
(* for it) is                                                              *)
(*   title  the <title> text                                               *)
(*   xp     for each of PRODUCT_XPATHS, [raises, nodes]: whether the query *)
(*          raises, and the nodes it returns                               *)
(*   links  for each //a[contains(@href,"/ip/")], [link, container]: the   *)
(*          anchor node and its nearest product container (a list of zero  *)
(*          or one node)                                                   *)
(***************************************************************************)
NumProductXPaths == 6

\* item.get(key)
ItemGet(item, key) == IF key \in DOMAIN item THEN item[key] ELSE None

\* the nodes of every strategy from k on, one after the other
RECURSIVE AllStrategyNodes(_, _)
AllStrategyNodes(page, k) ==
    IF k > NumProductXPaths THEN <<>>
    ELSE page.xp[k].nodes \o AllStrategyNodes(page, k + 1)

\* lines 308-317: the nodes of the first strategy, from k on, that yields any
RECURSIVE FirstStrategyNodes(_, _)
FirstStrategyNodes(page, k) ==
    IF k > NumProductXPaths THEN <<>>
    ELSE IF ~page.xp[k].raises /\ page.xp[k].nodes # <<>> THEN page.xp[k].nodes
    ELSE FirstStrategyNodes(page, k + 1)

\* lines 323-336: one candidate per href not seen before
RECURSIVE LinkFallback(_, _)
LinkFallback(links, seen_hrefs) ==
    IF links = <<>> THEN <<>>
    ELSE LET link == Head(links).link
             href == link.href_self
         IN  IF HrefTruthy(href) /\ href \notin seen_hrefs
             THEN (IF Head(links).container # <<>> THEN Head(links).container ELSE <<link>>)
                  \o LinkFallback(Tail(links), seen_hrefs \cup {href})
             ELSE LinkFallback(Tail(links), seen_hrefs)

\* lines 305-336
ProductNodes(page) ==
    LET byXPath == FirstStrategyNodes(page, 1)
    IN  IF byXPath # <<>> THEN byXPath ELSE LinkFallback(page.links, {})

\* lines 340-347: what is yielded when no node was found
DebugItem(page, url) ==
    [kind |-> "_debug", category_url |-> url, title |-> page.title]

NoNodesNothing(page, url) == <<>>

\* lines 338-348: without nodes the marker is yielded and the generator returns
NoNodesItems(page, url) == <<DebugItem(page, url)>>

\* lines 355-357: the test an extracted item passes to be yielded
ItemIsYielded(item) == item # NoItem /\ Truthy(ItemGet(item, "name"))

\* lines 350-360: the items yielded for the nodes, in order
RECURSIVE ExtractAll(_, _)
ExtractAll(nodes, url) ==
    IF nodes = <<>> THEN <<>>
    ELSE LET item == ExtractProductData(Head(nodes), url)
         IN  (IF ItemIsYielded(item) THEN <<item>> ELSE <<>>) \o ExtractAll(Tail(nodes), url)

\* parse_products(response): everything the generator yields, in order
ParseProducts(page, url) ==
    LET found == ProductNodes(page)
    IN  IF found = <<>> THEN NoNodesItems(page, url)
        ELSE ExtractAll(found, url)

(***************************************************************************)
(* _is_button_enabled.  A button is what the driver answers for the        *)
(* element: its attributes (None when absent), is_displayed(), and the     *)
(* nested <a> (has_link) with its attributes.  stale: the element's calls  *)
(* raise.                                                                  *)
(***************************************************************************)
UpperChars == <<"A", "B", "C", "D", "E", "I", "J", "L", "O", "P", "R", "S", "T", "U", "V">>

LowerChars == <<"a", "b", "c", "d", "e", "i", "j", "l", "o", "p", "r", "s", "t", "u", "v">>

LowerChar(c) ==
    IF \E i \in 1..Len(UpperChars) : UpperChars[i] = c
    THEN LowerChars[CHOOSE i \in 1..Len(UpperChars) : UpperChars[i] = c]
    ELSE c

\* str.lower()
Lower(s) == [i \in 1..Len(s) |-> LowerChar(s[i])]

\* sub in s
Contains(s, sub) ==
    \E i \in 1..(Len(s) - Len(sub) + 1) : SubSeq(s, i, i + Len(sub) - 1) = sub

OrEmpty(s) == IF Truthy(s) THEN s ELSE <<>>

Disabled == <<"d", "i", "s", "a", "b", "l", "e", "d">>

FalseStr == <<"f", "a", "l", "s", "e">>

TrueStr == <<"t", "r", "u", "e">>

JsVoid == <<"j", "a", "v", "a", "s", "c", "r", "i", "p", "t", ":", "v", "o", "i", "d">>

\* lines 585-607: the verdict when the button holds an <a>
LinkEnabled(button) ==
    IF Truthy(button.link_aria_disabled) /\ Lower(button.link_aria_disabled) = TrueStr
    THEN FALSE
    ELSE IF ~Truthy(button.href) \/ Strip(button.href) = <<>> \/ Strip(button.href) = <<"#">>
            \/ Contains(Lower(button.href), JsVoid)
    THEN FALSE
    ELSE IF Contains(Lower(OrEmpty(button.link_class)), Disabled) THEN FALSE
    ELSE TRUE

NoLinkAlwaysEnabled(button) == TRUE

\* lines 608-627: the verdict when find_element(By.TAG_NAME, 'a') raises
NoLinkEnabled(button) ==
    IF Truthy(button.aria_disabled) /\ Lower(button.aria_disabled) = TrueStr THEN FALSE
    ELSE TRUE

\* _is_button_enabled(button); responsive: the driver answers the element's calls
IsButtonEnabled(button, responsive) ==
    IF ~responsive \/ button.stale THEN FALSE
    ELSE IF button.disabled # None /\ button.disabled # FalseStr THEN FALSE
    ELSE IF Contains(Lower(OrEmpty(button.class)), Disabled) THEN FALSE
    ELSE IF ~button.displayed THEN FALSE
    ELSE IF button.has_link THEN LinkEnabled(button)
    ELSE NoLinkEnabled(button)

(***************************************************************************)
(* Fixtures: short texts, candidate nodes, pages and buttons               *)
(***************************************************************************)
TPapa == <<"P", "a", "p", "a">>

TShort == <<"a", "b">>

TTwo == <<"$", "2">>

TOne == <<"$", " ", "1">>

NoSel == [k \in 1..NumNameSelectors |-> 0]

\* an anchor with a name, inside a container that shows two prices
NodeGood ==
    [tag |-> "a", href_self |-> <<"", "/ip/a", 0>>, href_inner |-> None,
     texts |-> <<TPapa>>, sel |-> NoSel,
     container |-> Present(<<TPapa, TTwo, TOne>>), near |-> <<>>, div1 |-> Absent]

\* an anchor whose text is too short to be a name
NodeNameless ==
    [tag |-> "a", href_self |-> <<"", "/ip/b", 0>>, href_inner |-> None,
     texts |-> <<TShort>>, sel |-> NoSel,
     container |-> Absent, near |-> <<TTwo>>, div1 |-> Absent]

NoNodes == [raises |-> FALSE, nodes |-> <<>>]

NoStrategy == [k \in 1..NumProductXPaths |-> NoNodes]

PageProducts ==
    [title |-> "Snacks", encodable |-> TRUE,
     xp |-> [NoStrategy EXCEPT ![1] = [raises |-> FALSE, nodes |-> <<NodeGood, NodeNameless>>]],
     links |-> <<>>]

\* a page where no strategy and no link finds anything
PageEmpty == [title |-> "Snacks", encodable |-> TRUE, xp |-> NoStrategy, links |-> <<>>]

\* a page whose markup holds a lone surrogate: page_source.encode('utf-8') raises
PageUnencodable == [PageProducts EXCEPT !.encodable = FALSE]

\* the page a fresh browser shows before any navigation
PageBlank == [title |-> "", encodable |-> TRUE, xp |-> NoStrategy, links |-> <<>>]

Markups == <<PageProducts, PageEmpty, PageUnencodable>>

ButtonPlain ==
    [stale |-> FALSE, disabled |-> None, class |-> None, displayed |-> TRUE,
     has_link |-> TRUE, href |-> <<"/", "c">>, link_aria_disabled |-> None,
     link_class |-> None, aria_disabled |-> None, onclick |-> None]

ButtonDisabledClass ==
    [ButtonPlain EXCEPT !.class = <<"b", "t", "n", " ", "D", "i", "s", "a", "b", "l", "e", "d">>]

ButtonNoLink == [ButtonPlain EXCEPT !.has_link = FALSE, !.href = None]

Buttons == <<ButtonPlain, ButtonDisabledClass, ButtonNoLink>>

(***************************************************************************)
(* The site and the browser.                                               *)
(* A site is a list of pages [markup, button]: an index into Markups and   *)
(* an index into Buttons (0: the page has no next-page control).  The      *)
(* browser shows location loc: a page of the site, or 0 for a blank page.  *)
(***************************************************************************)
MaxSitePages == 2

max_pages == 50

Origin == "https://super.lider.cl"

CategoryPath == "/browse/snacks-y-picoteo"

BlankUrl == <<"data:", "", 0>>

UrlAt(l) == IF l = 0 THEN BlankUrl ELSE <<Origin, CategoryPath, l>>

\* a page below the last one must let the crawl through; only the last button is free
Sites ==
    UNION { { s \in [1..n -> [markup : 1..Len(Markups), button : 0..Len(Buttons)]] :
                \A i \in 1..(n - 1) : s[i].button = 1 } : n \in 1..MaxSitePages }

VARIABLES
    site,          \* the site being crawled
    alive,         \* the window of the current driver handle is open
    loc,           \* what the browser shows
    handles,       \* driver handles constructed so far
    closes,        \* windows closed by the environment so far
    pc,            \* position in _process_all_pages_with_pagination
    page_number,   \* local page_number
    driver,        \* self.driver: a handle number, 0 for None
    last_url,      \* self._last_url (None until set)
    current_url,   \* local current_url
    page_source,   \* local page_source: the location whose markup was read
    pending,       \* what parse_products has still to yield for this page
    next_button,   \* local next_button: 0 for None, else an index into Buttons
    exc,           \* the exception travelling to the handler of line 499
    yielded,       \* everything yielded to the caller, in order
    fetches,       \* page fetches (page_source reads) that succeeded
    clicks,        \* navigation interactions issued in this iteration: direct, script, action chain
    reinits,       \* calls of _init_selenium_driver made by the loop
    gets,          \* driver.get calls made by the loop
    outcome,       \* why the loop ended ("running" until it does)
    mishap,        \* a click was refused or a driver.get failed while the window was open
    xpc,           \* extraction run on its own: "idle", "input", "extracted" or "closed"
    cands,         \* its input: the candidate nodes of the page (none or one)
    got,           \* its output: what parse_products yielded
    money,         \* its output: the literals, price and discount_price derived
    sink_items,    \* JsonPipeline.items
    json_file,     \* the JSON output: whether it was written, and the items in it
    markup,        \* the page given to parse_products when it runs on its own
    product_nodes, \* the local product_nodes of parse_products after lines 305-336
    button_in,     \* the element given to _is_button_enabled when it runs on its own
    verdict,       \* what it returned
    released,      \* driver handles on which quit() has been called
    spider_closed, \* closed(reason) has run
    fed,           \* the items handed to the pipelines when they run on their own
    excel_items,   \* ExcelPipeline.items
    ws,            \* ExcelPipeline.ws: the data cells of the sheet, as <<row, item>>
    xlsx_file,     \* the Excel output: whether it was saved, and its data cells
    elements,      \* LiderSpider: what _find_product_elements returned
    lider_yielded, \* LiderSpider.parse: the products yielded
    conf,          \* start_requests: use_selenium and whether undetected-chromedriver is there
    sdriver,       \* start_requests and parse: self.driver holds a handle
    landed,        \* what the latest _load_page_with_selenium met
    entered,       \* start_requests entered the pagination loop
    start_path,    \* the way start_requests took ("none" before it ran)
    start_requested, \* start_requests issued the plain Scrapy request
    response,      \* the response the framework hands to parse
    parse_out,     \* what the latest parse call yielded
    mpc,           \* run_all_spiders_parallel.main: "off", "start", "join" or "summary"
    mi,            \* main: the position in SPIDERS (start loop) or in threads (join loop)
    threads,       \* main: the state of the worker thread of each spider
    sessions       \* for each spider's crawl process: its driver handle and its output file

envvars == <<site, alive, loc, handles, closes>>

locals == <<pc, page_number, driver, last_url, current_url, page_source, pending, next_button, exc>>

history == <<yielded, fetches, clicks, reinits, gets>>

notes == <<outcome, mishap>>

btnvars == <<button_in, verdict>>

lifevars == <<released, spider_closed>>

pipevars == <<fed, excel_items, ws, xlsx_file>>

lidervars == <<elements, lider_yielded>>

startvars == <<conf, sdriver, landed, entered, start_path, start_requested, response, parse_out>>

runvars == <<mpc, mi, threads, sessions>>

auxvars == <<pipevars, lidervars, startvars, runvars>>

parsevars == <<xpc, cands, got, money, sink_items, json_file, markup, product_nodes, btnvars>>

extvars == <<parsevars, lifevars, auxvars>>

PageAt(l) == IF l = 0 THEN PageBlank ELSE Markups[site[l].markup]

ButtonAt(l) == IF l = 0 THEN 0 ELSE site[l].button

\* where a click on the next-page control of location l leads
ClickTarget(l) == IF l = 0 \/ l >= Len(site) THEN l ELSE l + 1

\* where driver.get(url) leads
GetTarget(url) == IF url[1] = Origin /\ url[3] \in 1..Len(site) THEN url[3] ELSE 0

(***************************************************************************)
(* _process_all_pages_with_pagination                                      *)
(***************************************************************************)
MaxWindowCloses == 2

\* the environment closes windows only while the crawl is on its first pages
FaultPages == 2

\* the driver answers a call: there is a handle and its window is open
Responsive == driver # 0 /\ alive

LoopConditionOffByOne(n) == n <= max_pages + 1

\* line 370: the loop condition
LoopCondition(n) == n <= max_pages

AfterFindContinue(button) == IF button # 0 THEN "classify" ELSE "loop"

\* lines 420 and 495-497: with a control go on to classify it, without one break
AfterFind(button) == IF button # 0 THEN "classify" ELSE "done"

AfterClassifyAlways(enabled) == "scroll"

\* lines 424 and 492-494: click an enabled control, break on a disabled one
AfterClassify(enabled) == IF enabled THEN "scroll" ELSE "done"

AfterReinitRetry(ok) == IF ok THEN "reload" ELSE "reinit"

\* lines 380-383: break when _init_selenium_driver returns False
AfterReinit(ok) == IF ok THEN "reload" ELSE "done"

\* line 502: the messages the outer handler treats as a closed window
IsWindowClosedMsg(e) == e \in {"no such window", "target window already closed"}

\* _init_selenium_driver (lines 782-814) with self.driver None and Selenium
\* enabled: uc.Chrome(options) and, when it raises, uc.Chrome() without options.
\* first, second: whether each construction succeeds.  The result is
\* [ok, made]: the return value and the number of constructions tried.
InitSeleniumDriver(first, second) ==
    IF first THEN [ok |-> TRUE, made |-> 1]
    ELSE IF second THEN [ok |-> TRUE, made |-> 2]
    ELSE [ok |-> FALSE, made |-> 2]

NoMoney == [literals |-> <<>>, price |-> None, discount_price |-> None]

\* no JSON output has been written
NoFile == [written |-> FALSE, items |-> <<>>]

\* no Excel output has been saved
NoSheet == [written |-> FALSE, cells |-> {}]

\* the pipelines have received nothing
PipeIdle ==
    /\ excel_items = <<>>
    /\ ws = {}
    /\ xlsx_file = NoSheet

\* what the browser shows at the end of a load: whether its URL contains
\* '/blocked', whether its text is that of a challenge, whether the markup
\* has 1000 characters or more
Landings == [blocked_url : BOOLEAN, challenge_text : BOOLEAN, long : BOOLEAN]

\* what one call of _load_page_with_selenium meets: whether the window is
\* open, whether a new driver can be built, whether driver.get succeeds,
\* whether a later driver call raises, and the page the browser ends on
Loads == [window_open : BOOLEAN, reinit_ok : BOOLEAN, get_ok : BOOLEAN, fault : BOOLEAN,
          page : Landings]

NoLoad ==
    [window_open |-> TRUE, reinit_ok |-> TRUE, get_ok |-> FALSE, fault |-> FALSE,
     page |-> [blocked_url |-> FALSE, challenge_text |-> FALSE, long |-> FALSE]]

\* a response: whether its URL contains '/blocked', whether its text holds
\* 'robot or human' or 'captcha', and the markup it carries
Responses == [blocked_url : BOOLEAN, challenge_text : BOOLEAN, markup : {1, 2}]

NoResponse == [blocked_url |-> FALSE, challenge_text |-> FALSE, markup |-> 0]

\* start_requests and parse have not run
StartIdle ==
    /\ sdriver = FALSE
    /\ landed = NoLoad
    /\ entered = FALSE
    /\ start_path = "none"
    /\ start_requested = FALSE
    /\ response = NoResponse
    /\ parse_out = <<>>

\* run_all_spiders_parallel.py lines 14-30: the names of SPIDERS
SPIDERS == <<"carnes-y-pescados", "destilados", "snacks-y-picoteo">>

\* a crawl process that has not begun: no driver, no output file
NoSession == [driver |-> <<>>, file |-> <<>>]

\* main is not running
RunIdle ==
    /\ mpc = "off"
    /\ mi = 0
    /\ threads = [i \in 1..Len(SPIDERS) |-> "new"]
    /\ sessions = [i \in 1..Len(SPIDERS) |-> NoSession]

\* the parts that run on their own are not running
AuxIdle ==
    /\ RunIdle
    /\ fed = <<>>
    /\ elements = <<>>
    /\ conf = [use_selenium |-> TRUE, available |-> TRUE]
    /\ StartIdle
    /\ PipeIdle
    /\ lider_yielded = <<>>

Init ==
    /\ site \in Sites
    /\ alive = TRUE
    /\ loc = 1
    /\ handles = 1
    /\ closes = 0
    /\ pc = "loop"
    /\ page_number = 1
    /\ driver = 1
    /\ last_url = None
    /\ current_url = None
    /\ page_source = 0
    /\ pending = <<>>
    /\ next_button = 0
    /\ exc = "none"
    /\ yielded = <<>>
    /\ fetches = 0
    /\ clicks = 0
    /\ reinits = 0
    /\ gets = 0
    /\ outcome = "running"
    /\ mishap = FALSE
    /\ xpc = "idle"
    /\ cands = <<>>
    /\ got = <<>>
    /\ money = NoMoney
    /\ sink_items = <<>>
    /\ json_file = NoFile
    /\ markup = PageBlank
    /\ product_nodes = <<>>
    /\ button_in = ButtonPlain
    /\ verdict = TRUE
    /\ released = {}
    /\ spider_closed = FALSE
    /\ AuxIdle

\* line 370, condition false: the loop ends
LoopExit ==
    /\ pc = "loop"
    /\ ~LoopCondition(page_number)
    /\ pc' = "done"
    /\ UNCHANGED <<envvars, history>>
    /\ UNCHANGED <<page_number, driver, last_url, current_url, page_source, pending, next_button, exc>>
    /\ outcome' = "ceiling"
    /\ UNCHANGED mishap
    /\ UNCHANGED extvars

\* lines 373-378: read current_url to see whether the window is open
WindowCheck ==
    /\ pc = "loop"
    /\ LoopCondition(page_number)
    /\ pc' = IF Responsive THEN "fetch" ELSE "reinit"
    /\ clicks' = 0
    /\ UNCHANGED <<envvars, yielded, fetches, reinits, gets>>
    /\ UNCHANGED <<page_number, driver, last_url, current_url, page_source, pending, next_button, exc>>
    /\ UNCHANGED outcome
    /\ UNCHANGED mishap
    /\ UNCHANGED extvars

\* lines 379-382: drop the handle and build a new one; break when that fails
Reinit ==
    /\ pc = "reinit"
    /\ \E first \in BOOLEAN, second \in BOOLEAN :
         LET r == InitSeleniumDriver(first, second)
         IN  /\ handles' = IF r.ok THEN handles + 1 ELSE handles
             /\ driver' = IF r.ok THEN handles + 1 ELSE 0
             /\ alive' = r.ok
             /\ loc' = IF r.ok THEN 0 ELSE loc
             /\ pc' = AfterReinit(r.ok)
    /\ reinits' = reinits + 1
    /\ UNCHANGED <<site, closes, yielded, fetches, clicks, gets>>
    /\ UNCHANGED <<page_number, last_url, current_url, page_source, pending, next_button, exc>>
    /\ outcome' = IF driver' = 0 THEN "reinit_failed" ELSE outcome
    /\ UNCHANGED mishap
    /\ UNCHANGED extvars

\* lines 383-390: driver.get(_last_url) when it is set; a failure is swallowed
Reload ==
    /\ pc = "reload"
    /\ IF Truthy(last_url)
       THEN /\ gets' = gets + 1
            /\ current_url' = last_url
            /\ \E ok \in BOOLEAN :
                 loc' = IF Responsive /\ ok THEN GetTarget(last_url) ELSE loc
       ELSE /\ current_url' = None
            /\ UNCHANGED <<gets, loc>>
    /\ pc' = "fetch"
    /\ UNCHANGED <<site, alive, handles, closes, yielded, fetches, clicks, reinits>>
    /\ UNCHANGED <<page_number, driver, last_url, page_source, pending, next_button, exc>>
    /\ UNCHANGED outcome
    /\ mishap' = (mishap \/ (Truthy(last_url) /\ Responsive /\ loc' # GetTarget(last_url)))
    /\ UNCHANGED extvars

\* lines 401-411: what parse_products yields for the response built from each
\* page the site can serve, by location shown and markup
ResponseItems ==
    [l \in 0..MaxSitePages |->
        [m \in 1..Len(Markups) |->
            ParseProducts(IF l = 0 THEN PageBlank ELSE Markups[m], UrlAt(l))]]

RememberedAlways(old, ok, url) == url

\* lines 393-399: _last_url is assigned after page_source and current_url were
\* both read; when either read raises the loop breaks before the assignment
Remembered(old, ok, url) == IF ok THEN url ELSE old

\* lines 392-413, up to the first yield: read page_source and current_url,
\* remember the URL, build the response and start parse_products on it
FetchPage ==
    /\ pc = "fetch"
    /\ IF ~Responsive
       THEN /\ pc' = "done"
            /\ last_url' = Remembered(last_url, FALSE, UrlAt(loc))
            /\ UNCHANGED <<current_url, page_source, pending, exc, fetches>>
       ELSE /\ page_source' = loc
            /\ current_url' = UrlAt(loc)
            /\ last_url' = Remembered(last_url, TRUE, UrlAt(loc))
            /\ fetches' = fetches + 1
            /\ IF PageAt(loc).encodable
               THEN /\ pending' = ResponseItems[loc][IF loc = 0 THEN 1 ELSE site[loc].markup]
                    /\ pc' = "yield"
                    /\ exc' = exc
               ELSE /\ pending' = <<>>
                    /\ pc' = "raised"
                    /\ exc' = "UnicodeEncodeError"
    /\ UNCHANGED <<envvars, yielded, clicks, reinits, gets>>
    /\ UNCHANGED <<page_number, driver, next_button>>
    /\ outcome' = IF pc' = "done" THEN "fetch_failed" ELSE outcome
    /\ UNCHANGED mishap
    /\ UNCHANGED extvars

YieldRestart(out, item) == <<item>>

\* line 413 (and 229-230 above it): the caller has received one item more
YieldTo(out, item) == Append(out, item)

\* lines 411-413: one item goes to the caller
YieldItem ==
    /\ pc = "yield"
    /\ pending # <<>>
    /\ yielded' = YieldTo(yielded, Head(pending))
    /\ pending' = Tail(pending)
    /\ UNCHANGED <<envvars, fetches, clicks, reinits, gets>>
    /\ UNCHANGED <<pc, page_number, driver, last_url, current_url, page_source, next_button, exc>>
    /\ UNCHANGED outcome
    /\ UNCHANGED mishap
    /\ UNCHANGED extvars

\* _find_next_page_button (lines 519-560): the control of the page shown, None
\* when there is none or when the driver raises
FindNextPageButton == IF Responsive THEN ButtonAt(loc) ELSE 0

PageDoneEarly(items) == Len(items) <= 1

\* lines 411-415: the for loop over parse_products(response) is exhausted
PageDone(items) == items = <<>>

\* lines 415-420 and 495-497: look for the control; without one the loop ends
FindNext ==
    /\ pc = "yield"
    /\ PageDone(pending)
    /\ next_button' = FindNextPageButton
    /\ pc' = AfterFind(FindNextPageButton)
    /\ UNCHANGED <<envvars, history>>
    /\ UNCHANGED <<page_number, driver, last_url, current_url, page_source, pending, exc>>
    /\ outcome' = IF pc' = "done" THEN "no_button" ELSE outcome
    /\ UNCHANGED mishap
    /\ UNCHANGED extvars

\* lines 421-424 and 492-494: a disabled control ends the loop
Classify ==
    /\ pc = "classify"
    /\ pc' = AfterClassify(IsButtonEnabled(Buttons[next_button], Responsive))
    /\ UNCHANGED <<envvars, history>>
    /\ UNCHANGED <<page_number, driver, last_url, current_url, page_source, pending, next_button, exc>>
    /\ outcome' = IF pc' = "done" THEN "disabled" ELSE outcome
    /\ UNCHANGED mishap
    /\ UNCHANGED extvars

\* lines 427-430: scroll the control into view; a fault goes to the handler of line 479
ScrollToButton ==
    /\ pc = "scroll"
    /\ pc' = IF Responsive THEN "click" ELSE "alt_click"
    /\ UNCHANGED <<envvars, history>>
    /\ UNCHANGED <<page_number, driver, last_url, current_url, page_source, pending, next_button, exc>>
    /\ UNCHANGED outcome
    /\ UNCHANGED mishap
    /\ UNCHANGED extvars

AfterDirectClickAlsoScript(ok) == "js_click"

\* lines 441-446: the script click is tried only when the direct click raised
AfterDirectClick(ok) == IF ok THEN "verify" ELSE "js_click"

\* lines 433-444: the window check and the direct click; ok: the click is not refused
DirectClick ==
    /\ pc = "click"
    /\ IF ~Responsive
       THEN /\ pc' = "js_click"
            /\ UNCHANGED <<loc, clicks>>
       ELSE /\ clicks' = clicks + 1
            /\ \E ok \in BOOLEAN :
                 /\ loc' = IF ok THEN ClickTarget(loc) ELSE loc
                 /\ pc' = AfterDirectClick(ok)
    /\ UNCHANGED <<site, alive, handles, closes, yielded, fetches, reinits, gets>>
    /\ UNCHANGED <<page_number, driver, last_url, current_url, page_source, pending, next_button, exc>>
    /\ UNCHANGED outcome
    /\ mishap' = (mishap \/ (Responsive /\ pc' = "js_click"))
    /\ UNCHANGED extvars

\* lines 445-449: the script click; its fault is raised to the handler of line 479
JsClick ==
    /\ pc = "js_click"
    /\ clicks' = clicks + 1
    /\ \E ok \in BOOLEAN :
         /\ loc' = IF Responsive /\ ok THEN ClickTarget(loc) ELSE loc
         /\ pc' = IF Responsive /\ ok THEN "verify" ELSE "alt_click"
    /\ UNCHANGED <<site, alive, handles, closes, yielded, fetches, reinits, gets>>
    /\ UNCHANGED <<page_number, driver, last_url, current_url, page_source, pending, next_button, exc>>
    /\ UNCHANGED outcome
    /\ mishap' = (mishap \/ (Responsive /\ pc' = "alt_click"))
    /\ UNCHANGED extvars

NextPageNumberSkip(n) == n + 2

\* lines 478 and 487: page_number += 1
NextPageNumber(n) == n + 1

AfterVerifyAbort(unchanged) == IF unchanged THEN "done" ELSE "settle"

\* lines 455-463: a URL that changed and one that did not (after the second
\* wait) are both only logged; the loop goes on either way
AfterVerify(unchanged) == "settle"

\* lines 451-466: read the URL again (twice when it did not change); a changed
\* or unchanged URL both go on, a fault is raised to the handler of line 479
VerifyUrl ==
    /\ pc = "verify"
    /\ pc' = IF Responsive THEN AfterVerify(UrlAt(loc) = current_url) ELSE "alt_click"
    /\ UNCHANGED <<envvars, history>>
    /\ UNCHANGED <<page_number, driver, last_url, current_url, page_source, pending, next_button, exc>>
    /\ outcome' = IF pc' = "done" THEN "error" ELSE outcome
    /\ UNCHANGED mishap
    /\ UNCHANGED extvars

\* lines 468-478: scroll the new page and count it
ScrollPage ==
    /\ pc = "settle"
    /\ IF Responsive
       THEN /\ page_number' = NextPageNumber(page_number)
            /\ pc' = "loop"
       ELSE /\ pc' = "alt_click"
            /\ UNCHANGED page_number
    /\ UNCHANGED <<envvars, history>>
    /\ UNCHANGED <<driver, last_url, current_url, page_source, pending, next_button, exc>>
    /\ UNCHANGED outcome
    /\ UNCHANGED mishap
    /\ UNCHANGED extvars

\* lines 479-491: one more click through an action chain; break when it fails
AltClick ==
    /\ pc = "alt_click"
    /\ clicks' = clicks + 1
    /\ \E ok \in BOOLEAN :
         IF Responsive /\ ok
         THEN /\ loc' = ClickTarget(loc)
              /\ page_number' = NextPageNumber(page_number)
              /\ pc' = "loop"
         ELSE /\ pc' = "done"
              /\ UNCHANGED <<loc, page_number>>
    /\ UNCHANGED <<site, alive, handles, closes, yielded, fetches, reinits, gets>>
    /\ UNCHANGED <<driver, last_url, current_url, page_source, pending, next_button, exc>>
    /\ outcome' = IF pc' = "done" THEN "click_failed" ELSE outcome
    /\ mishap' = (mishap \/ (Responsive /\ pc' = "done"))
    /\ UNCHANGED extvars

\* lines 499-517: the handler of the loop body.  Only a closed-window message
\* starts a recovery; whatever else happens there ends the loop.
OuterExcept ==
    /\ pc = "raised"
    /\ exc' = "none"
    /\ IF IsWindowClosedMsg(exc)
       THEN \E first \in BOOLEAN, second \in BOOLEAN, ok \in BOOLEAN :
              LET r == InitSeleniumDriver(first, second)
              IN  /\ reinits' = reinits + 1
                  /\ handles' = IF r.ok THEN handles + 1 ELSE handles
                  /\ driver' = IF r.ok THEN handles + 1 ELSE 0
                  /\ alive' = r.ok
                  /\ gets' = IF r.ok /\ Truthy(last_url) THEN gets + 1 ELSE gets
                  /\ loc' = IF ~r.ok THEN loc
                            ELSE IF Truthy(last_url) /\ ok THEN GetTarget(last_url) ELSE 0
                  /\ pc' = IF r.ok /\ Truthy(last_url) /\ ok THEN "loop" ELSE "done"
       ELSE /\ pc' = "done"
            /\ UNCHANGED <<reinits, handles, driver, alive, gets, loc>>
    /\ UNCHANGED <<site, closes, yielded, fetches, clicks>>
    /\ UNCHANGED <<page_number, last_url, current_url, page_source, pending, next_button>>
    /\ outcome' = IF pc' = "done" THEN "error" ELSE outcome
    /\ UNCHANGED mishap
    /\ UNCHANGED extvars

\* the environment: the browser window is closed (by the user, by a crash)
CloseWindow ==
    /\ pc # "done"
    /\ alive
    /\ closes < MaxWindowCloses
    /\ page_number <= FaultPages
    /\ alive' = FALSE
    /\ closes' = closes + 1
    /\ UNCHANGED <<site, loc, handles, locals, history, notes, extvars>>

\* the steps of the loop itself
LoopStep ==
    \/ LoopExit
    \/ WindowCheck
    \/ Reinit
    \/ Reload
    \/ FetchPage
    \/ YieldItem
    \/ FindNext
    \/ Classify
    \/ ScrollToButton
    \/ DirectClick
    \/ JsClick
    \/ VerifyUrl
    \/ ScrollPage
    \/ AltClick
    \/ OuterExcept

\* lines 979-985: closed(reason), called once when the crawl is over; quit()
\* is called on the handle self.driver holds, if it holds one
QuitCurrent(d, quit) == IF d # 0 THEN quit \cup {d} ELSE quit

Closed ==
    /\ pc = "done"
    /\ ~spider_closed
    /\ spider_closed' = TRUE
    /\ released' = QuitCurrent(driver, released)
    /\ UNCHANGED <<envvars, locals, history, notes, parsevars, auxvars>>

Next == LoopStep \/ CloseWindow \/ Closed

vars == <<envvars, locals, history, notes, extvars>>

Spec == Init /\ [][Next]_vars

\* the loop keeps running: every call it makes returns or raises
FairSpec == Spec /\ WF_vars(LoopStep)

(***************************************************************************)
(* parse_products and _extract_product_data run on their own, on every     *)
(* candidate node of a bounded family                                      *)
(***************************************************************************)
MaxTexts == 2

TAbc == <<"a", "b", "c">>

TBlank == <<" ", "\n">>

TThousand == <<"$", "1", ".", "0", "0", "0">>

TZeroOne == <<"$", "0", "1">>

TLines == <<"a", "\n", " ", "P", "a", "p", "a", " ", " ", "$", "2">>

TRun == <<"$", "1", "0", "0", "0", "$", "$", "3", ".", "1">>

TextSet == {TPapa, TAbc, TBlank, TTwo, TOne, TThousand, TZeroOne, TLines, TRun}

PriceTexts == {TTwo, TOne, TZeroOne}

TextLists == UNION { [1..k -> TextSet] : k \in 0..MaxTexts }

\* which text node each name selector picks: none, one selector, or two neighbours
SelPatterns(n) ==
    {NoSel}
    \cup { [NoSel EXCEPT ![k] = i] : k \in 1..NumNameSelectors, i \in 1..n }
    \cup { [NoSel EXCEPT ![k] = 1, ![k + 1] = n] : k \in 1..(NumNameSelectors - 1) }

Sides == {Absent} \cup { Present(<<t>>) : t \in PriceTexts }

DivCandidates ==
    { [tag |-> "div", href_self |-> None, href_inner |-> <<"", "/ip/a", 0>>,
       texts |-> ts, sel |-> sl, container |-> Absent, near |-> <<>>, div1 |-> Absent] :
      ts \in TextLists, sl \in SelPatterns(MaxTexts) }

AnchorCandidates ==
    { [tag |-> "a", href_self |-> <<"", "/ip/a", 0>>, href_inner |-> None,
       texts |-> ts, sel |-> NoSel, container |-> c, near |-> nr, div1 |-> d] :
      ts \in TextLists, c \in Sides, nr \in {<<>>, <<TTwo>>}, d \in Sides }

Candidates ==
    { c \in DivCandidates : \A k \in 1..NumNameSelectors : c.sel[k] <= Len(c.texts) }
    \cup AnchorCandidates

\* a container with a name in its <h3> and no link at all
NodeNoLink ==
    [tag |-> "div", href_self |-> None, href_inner |-> None,
     texts |-> <<TPapa, TTwo>>, sel |-> [NoSel EXCEPT ![1] = 1],
     container |-> Absent, near |-> <<>>, div1 |-> Absent]

\* another product of the same name
NodeOther == [NodeGood EXCEPT !.href_self = <<"", "/ip/c", 0>>]

MaxSinkNodes == 3

\* pages of several candidates, with repeats, for the pipeline
SinkNodes == {NodeGood, NodeOther, NodeNameless, NodeNoLink}

SinkPages == UNION { [1..k -> SinkNodes] : k \in 2..MaxSinkNodes }

MaxStrategyNodes == 1

\* the i-th node the k-th strategy returns
StrategyNode(k, i) == [NodeGood EXCEPT !.href_self = <<"", "/ip/s", (k * (MaxStrategyNodes + 1)) + i>>]

\* the query raises
Raising == [raises |-> TRUE, nodes |-> <<>>]

\* what the k-th strategy answers: nothing, an exception, or its first n nodes
StrategyResult(k, c) ==
    IF c = 0 THEN NoNodes
    ELSE IF c = 1 THEN Raising
    ELSE [raises |-> FALSE, nodes |-> [i \in 1..(c - 1) |-> StrategyNode(k, i)]]

\* pages on which each strategy answers on its own account
StrategyPages ==
    { [title |-> "Snacks", encodable |-> TRUE,
       xp |-> [k \in 1..NumProductXPaths |-> StrategyResult(k, c[k])],
       links |-> <<>>] :
      c \in [1..NumProductXPaths -> 0..(MaxStrategyNodes + 1)] }

\* attribute values: absent, and spellings the tests of _is_button_enabled tell apart
TrueUpper == <<"T", "r", "u", "e">>

Hash == <<" ", "#">>

JsVoidUpper == <<"J", "a", "v", "a", "S", "c", "r", "i", "p", "t", ":", "v", "o", "i", "d", "(", "0", ")">>

PlainClass == <<"b", "t", "n">>

\* elements with every combination of the answers _is_button_enabled asks for;
\* without a nested <a> there are no answers about it
ButtonFamily ==
    { b \in [stale : BOOLEAN,
             disabled : {None, FalseStr, TrueStr},
             class : {None, PlainClass, ButtonDisabledClass.class},
             displayed : BOOLEAN,
             has_link : BOOLEAN,
             href : {None, <<>>, Hash, JsVoidUpper, ButtonPlain.href},
             link_aria_disabled : {None, TrueUpper, FalseStr},
             link_class : {None, ButtonDisabledClass.class},
             aria_disabled : {None, TrueUpper},
             onclick : {None, PlainClass}] :
        ~b.has_link => (b.href = None /\ b.link_aria_disabled = None /\ b.link_class = None) }

MaxLinks == 2

\* hrefs of product anchors: two spellings of one target, and another target
LinkHrefs == {<<"", "/ip/a", 0>>, <<Origin, "/ip/a", 0>>, <<"", "/ip/b", 0>>}

\* an <a> without text (around an image) with the given href
Anchor(href) ==
    [tag |-> "a", href_self |-> href, href_inner |-> None,
     texts |-> <<>>, sel |-> NoSel, container |-> Absent, near |-> <<>>, div1 |-> Absent]

\* a <div class="card"> whose first product link has the given href
Card(href) ==
    [tag |-> "div", href_self |-> None, href_inner |-> href,
     texts |-> <<TPapa, TTwo>>, sel |-> [NoSel EXCEPT ![1] = 1],
     container |-> Absent, near |-> <<>>, div1 |-> Absent]

\* the answer to //a[contains(@href, "/ip/")] with each anchor's nearest
\* container: the anchors marked in_card sit in one card, the others in none
LinkList(hrefs, in_card) ==
    LET inside == { i \in 1..Len(hrefs) : in_card[i] }
        first == CHOOSE i \in inside : \A j \in inside : i <= j
    IN  [i \in 1..Len(hrefs) |->
            [link |-> Anchor(hrefs[i]),
             container |-> IF in_card[i] THEN <<Card(hrefs[first])>> ELSE <<>>]]

LinkLists ==
    UNION { { LinkList(hrefs, in_card) : hrefs \in [1..n -> LinkHrefs], in_card \in [1..n -> BOOLEAN] } :
            n \in 1..MaxLinks }

\* pages on which no strategy finds a node although there are product
\* anchors: every anchor of an HTML document has a grandparent, so the sixth
\* query must have raised, and so must the second when an anchor has a container
LinkPages ==
    { pg \in [title : {"Snacks"}, encodable : {TRUE},
              xp : [1..NumProductXPaths -> {NoNodes, Raising}],
              links : LinkLists] :
        /\ pg.xp[NumProductXPaths] = Raising
        /\ (\E i \in 1..Len(pg.links) : pg.links[i].container # <<>>) => pg.xp[2] = Raising }

\* the page on which the first strategy returns exactly these nodes
PageOfNodes(nodes) ==
    [title |-> "Snacks", encodable |-> TRUE,
     xp |-> [NoStrategy EXCEPT ![1] = [raises |-> FALSE, nodes |-> nodes]],
     links |-> <<>>]

\* lines 718-770 for one node: the literals and what the item gets from them
MoneyOf(node) ==
    IF RawText(node) = None THEN NoMoney
    ELSE LET u == MoneyLiterals(node)
             pp == PricePair(u)
         IN  [literals |-> u, price |-> pp.price, discount_price |-> pp.discount_price]

MaxFed == 3

\* a product, another item of the same product_url, a product of another
\* product_url, an item without product_url, and the two markers
FedA == ExtractProductData(NodeGood, UrlAt(1))

FedB == ExtractProductData(NodeOther, UrlAt(1))

FedItems ==
    {FedA, [FedA EXCEPT !.price = None], FedB, ExtractProductData(NodeNoLink, UrlAt(1)),
     DebugItem(PageEmpty, UrlAt(1)), [kind |-> "_blocked", category_url |-> UrlAt(1), title |-> ""]}

FedSeqs == UNION { [1..k -> FedItems] : k \in 0..MaxFed }

(***************************************************************************)
(* LiderSpider (lider_spider.py).  An element is what the driver answers   *)
(* for one product element: the text of its name element and of its price  *)
(* element (None when find_element raises), and the href of its link.      *)
(***************************************************************************)
\* items.py lines 4-10: the fields ProductItem declares; assigning any other
\* key to a scrapy.Item raises KeyError
ProductFields == {"category_url", "name", "price", "discount_price", "product_url", "raw_text"}

\* lines 1345-1374: the keys _extract_product_data assigns, in order
LiderKeys == <<"index", "name", "price", "image_url", "link", "description">>

SinPrecio == <<"S", "i", "n", " ", "p", "r", "e", "c", "i", "o">>

\* lines 1341-1381.  The inner handlers assign the same key again, so an
\* undeclared key raises out of them too and reaches the handler of line 1379.
LiderExtractProductData(element, index) ==
    IF \E k \in 1..Len(LiderKeys) : LiderKeys[k] \notin ProductFields THEN NoItem
    ELSE LET name == IF element.name = None THEN SinNombre ELSE Strip(element.name)
             price == IF element.price = None THEN SinPrecio ELSE Strip(element.price)
         IN  IF ~Truthy(name) \/ name = SinNombre THEN NoItem
             ELSE [kind |-> "product", index |-> index, name |-> name, price |-> price,
                   image_url |-> <<>>, link |-> <<>>, description |-> <<>>]

\* lines 646-649: the products of the elements from position idx on
RECURSIVE LiderProducts(_, _)
LiderProducts(items, idx) ==
    IF idx > Len(items) THEN <<>>
    ELSE LET product == LiderExtractProductData(items[idx], idx)
         IN  (IF product # NoItem THEN <<product>> ELSE <<>>) \o LiderProducts(items, idx + 1)

MaxElements == 2

ElementNames == {None, <<>>, TBlank, TPapa, <<" ">> \o TAbc, SinNombre}

ElementSeqs == UNION { [1..k -> [name : ElementNames, price : {None, TThousand}]] : k \in 0..MaxElements }

\* what each part that runs on its own is given; nothing unless it is the one running
InputsFor(mode) ==
    /\ IF mode = "fed" THEN fed \in FedSeqs ELSE fed = <<>>
    /\ IF mode = "lider" THEN elements \in ElementSeqs ELSE elements = <<>>
    /\ IF mode = "start"
       THEN conf \in [use_selenium : BOOLEAN, available : BOOLEAN]
       ELSE conf = [use_selenium |-> TRUE, available |-> TRUE]

\* the pagination loop is over and plays no part
LoopParked ==
    /\ site = <<[markup |-> 1, button |-> 0]>>
    /\ alive = TRUE
    /\ loc = 1
    /\ handles = 1
    /\ closes = 0
    /\ pc = "done"
    /\ page_number = 1
    /\ driver = 1
    /\ last_url = None
    /\ current_url = None
    /\ page_source = 0
    /\ pending = <<>>
    /\ next_button = 0
    /\ exc = "none"
    /\ yielded = <<>>
    /\ fetches = 0
    /\ clicks = 0
    /\ reinits = 0
    /\ gets = 0
    /\ outcome = "ceiling"
    /\ mishap = FALSE

InitExtract ==
    /\ LoopParked
    /\ \/ /\ xpc = "input"
          /\ cands \in {<<>>} \cup { <<c>> : c \in Candidates } \cup SinkPages
          /\ markup = PageOfNodes(cands)
          /\ button_in = ButtonPlain
       \/ /\ xpc = "page"
          /\ cands = <<>>
          /\ markup \in StrategyPages \cup LinkPages
          /\ button_in = ButtonPlain
       \/ /\ xpc = "button"
          /\ cands = <<>>
          /\ markup = PageBlank
          /\ button_in \in ButtonFamily
       \/ /\ xpc \in {"fed", "lider", "start"}
          /\ cands = <<>>
          /\ markup = PageBlank
          /\ button_in = ButtonPlain
    /\ InputsFor(xpc)
    /\ StartIdle
    /\ PipeIdle
    /\ RunIdle
    /\ lider_yielded = <<>>
    /\ got = <<>>
    /\ money = NoMoney
    /\ sink_items = <<>>
    /\ json_file = NoFile
    /\ product_nodes = <<>>
    /\ verdict = TRUE
    /\ released = {}
    /\ spider_closed = FALSE

\* parse_products on the page made of the candidates
ExtractStep ==
    /\ xpc = "input"
    /\ xpc' = "extracted"
    /\ got' = ParseProducts(PageOfNodes(cands), UrlAt(1))
    /\ money' = IF cands = <<>> THEN NoMoney ELSE MoneyOf(cands[1])
    /\ UNCHANGED <<cands, sink_items, json_file, markup, product_nodes, btnvars, lifevars, auxvars>>
    /\ UNCHANGED <<envvars, locals, history, notes>>

\* lines 305-336 of parse_products on a page of the second family: the
\* candidate nodes it goes on with
SelectNodes ==
    /\ xpc = "page"
    /\ xpc' = "selected"
    /\ product_nodes' = ProductNodes(markup)
    /\ UNCHANGED <<cands, got, money, sink_items, json_file, markup, btnvars, lifevars, auxvars>>
    /\ UNCHANGED <<envvars, locals, history, notes>>

\* _is_button_enabled on an element of the family
ClassifyButton ==
    /\ xpc = "button"
    /\ xpc' = "classified"
    /\ verdict' = IsButtonEnabled(button_in, TRUE)
    /\ UNCHANGED <<cands, got, money, sink_items, json_file, markup, product_nodes, button_in, lifevars, auxvars>>
    /\ UNCHANGED <<envvars, locals, history, notes>>

(***************************************************************************)
(* JsonPipeline (pipelines.py): the framework hands every item the spider  *)
(* yields to process_item, in order, and calls close_spider at the end     *)
(***************************************************************************)
\* lines 45 and 53-54: item.get('_blocked'), item.get('_debug'), item.get('product_url')
IsMarker(item) == item.kind \in {"_debug", "_blocked"}

\* line 45: the items that are neither _blocked nor _debug
RECURSIVE ValidItems(_)
ValidItems(items) ==
    IF items = <<>> THEN <<>>
    ELSE (IF IsMarker(Head(items)) THEN <<>> ELSE <<Head(items)>>) \o ValidItems(Tail(items))

KeepsAnyUrl(product_url, seen_urls) == Truthy(product_url)

\* line 54: the test an item passes to be written
KeepsItem(product_url, seen_urls) == Truthy(product_url) /\ product_url \notin seen_urls

\* lines 48-58: the first item of each product_url
RECURSIVE UniqueItems(_, _)
UniqueItems(valid_items, seen_urls) ==
    IF valid_items = <<>> THEN <<>>
    ELSE LET product_url == ItemGet(Head(valid_items), "product_url")
         IN  IF KeepsItem(product_url, seen_urls)
             THEN <<Head(valid_items)>>
                  \o UniqueItems(Tail(valid_items), seen_urls \cup {product_url})
             ELSE UniqueItems(Tail(valid_items), seen_urls)

\* the items the framework hands to the pipelines: what parse_products
\* yielded, or the sequence given when the pipelines run on their own
Handed == IF xpc = "fed" THEN fed ELSE got

\* ws.cell(row=row, ...) for the five columns: the row holds the item's fields
CellWrite(cells, row, item) == { c \in cells : c[1] # row } \cup {<<row, item>>}

\* ExcelPipeline.process_item, lines 186-213 (openpyxl available): markers are
\* skipped, anything else is appended and written to the row after the header
\* and the items so far
ExcelProcess(items, cells, item) ==
    IF IsMarker(item) THEN [items |-> items, cells |-> cells]
    ELSE [items |-> Append(items, item),
          cells |-> CellWrite(cells, Len(items) + 2, item)]

\* list.index: the first position holding an equal item, counted from 0
RECURSIVE IndexOf(_, _)
IndexOf(items, item) ==
    IF items = <<>> \/ Head(items) = item THEN 0 ELSE 1 + IndexOf(Tail(items), item)

\* line 167: row = len(unique_items) - unique_items.index(item) + 1
RowOf(unique_items, item) == Len(unique_items) - IndexOf(unique_items, item) + 1

\* lines 166-177: the cells of the rebuilt sheet, after the first k items were written
RECURSIVE RebuiltCells(_, _)
RebuiltCells(unique_items, k) ==
    IF k = 0 THEN {}
    ELSE CellWrite(RebuiltCells(unique_items, k - 1),
                   RowOf(unique_items, unique_items[k]), unique_items[k])

\* lines 71-76 and 186-213: process_item of JsonPipeline (priority 300) and of
\* ExcelPipeline (priority 400) for the next item
ProcessItem ==
    /\ xpc \in {"extracted", "fed"}
    /\ Len(sink_items) < Len(Handed)
    /\ LET item == Handed[Len(sink_items) + 1]
           e == ExcelProcess(excel_items, ws, item)
       IN  /\ sink_items' = Append(sink_items, item)
           /\ excel_items' = e.items
           /\ ws' = e.cells
    /\ UNCHANGED <<xpc, cands, got, money, json_file, markup, product_nodes, btnvars, lifevars>>
    /\ UNCHANGED <<fed, xlsx_file, lidervars, startvars, runvars>>
    /\ UNCHANGED <<envvars, locals, history, notes>>

\* lines 41-69 and 122-184: close_spider of both pipelines once every item
\* was handed over
CloseSpider ==
    /\ xpc \in {"extracted", "fed"}
    /\ Len(sink_items) = Len(Handed)
    /\ xpc' = "closed"
    /\ json_file' = IF sink_items # <<>>
                    THEN [written |-> TRUE, items |-> UniqueItems(ValidItems(sink_items), {})]
                    ELSE json_file
    /\ LET unique_items == UniqueItems(ValidItems(excel_items), {})
       IN  IF excel_items # <<>>
           THEN /\ ws' = RebuiltCells(unique_items, Len(unique_items))
                /\ xlsx_file' = [written |-> TRUE, cells |-> ws']
           ELSE UNCHANGED <<ws, xlsx_file>>
    /\ UNCHANGED <<cands, got, money, sink_items, markup, product_nodes, btnvars, lifevars>>
    /\ UNCHANGED <<fed, excel_items, lidervars, startvars, runvars>>
    /\ UNCHANGED <<envvars, locals, history, notes>>

\* LiderSpider.parse, lines 639-649: every element found goes through
\* _extract_product_data and what it returns, unless None, is yielded
LiderParse ==
    /\ xpc = "lider"
    /\ xpc' = "lider_done"
    /\ lider_yielded' = LiderProducts(elements, 1)
    /\ UNCHANGED <<cands, got, money, sink_items, json_file, markup, product_nodes, btnvars, lifevars>>
    /\ UNCHANGED <<pipevars, elements, startvars, runvars>>
    /\ UNCHANGED <<envvars, locals, history, notes>>

(***************************************************************************)
(* start_requests and parse of SnacksYPicoteoSpider.  The pagination loop  *)
(* is the one modelled above; here it is one step that returns.            *)
(***************************************************************************)
LoadPageIgnoringBlock(load) ==
    /\ load.window_open \/ load.reinit_ok
    /\ load.get_ok
    /\ ~load.fault

\* _load_page_with_selenium, lines 816-972, called with a driver: True only
\* at line 968, after driver.get succeeded, no call raised, the markup has
\* 1000 characters or more and the final URL does not contain '/blocked'
LoadPageWithSelenium(load) ==
    /\ load.window_open \/ load.reinit_ok
    /\ load.get_ok
    /\ ~load.fault
    /\ load.page.long
    /\ ~load.page.blocked_url

AfterSeleniumAlsoScrapy(success) == "requested"

\* lines 227-233 and 240-250: after the loop start_requests returns; in every
\* other case it goes on to the plain request
AfterSelenium(success) == IF success THEN "looped" ELSE "requested"

\* start_requests, lines 207-250.  init_ok: uc.Chrome can be built; raised:
\* a call of the Selenium branch raises (handler of lines 237-238)
StartRequests ==
    /\ xpc = "start"
    /\ \E init_ok \in BOOLEAN, raised \in BOOLEAN, load \in Loads :
         LET selenium == conf.use_selenium /\ conf.available
             has == selenium /\ init_ok
             success == has /\ ~raised /\ LoadPageWithSelenium(load)
         IN  /\ (~has \/ raised) => load = NoLoad
             /\ landed' = load
             /\ sdriver' = (has /\ (raised \/ load.window_open \/ load.reinit_ok))
             /\ entered' = success
             /\ start_path' = IF ~selenium THEN "no_selenium"
                              ELSE IF ~init_ok THEN "no_driver"
                              ELSE IF raised THEN "raised"
                              ELSE IF ~LoadPageWithSelenium(load) THEN "load_failed"
                              ELSE "loop"
             /\ xpc' = AfterSelenium(success)
             /\ start_requested' = (xpc' = "requested")
    /\ UNCHANGED <<conf, response, parse_out>>
    /\ UNCHANGED <<cands, got, money, sink_items, json_file, markup, product_nodes, btnvars, lifevars>>
    /\ UNCHANGED <<pipevars, lidervars, runvars>>
    /\ UNCHANGED <<envvars, locals, history, notes>>

\* the framework downloads the request and hands the response to parse
Download ==
    /\ xpc = "requested"
    /\ xpc' = "response"
    /\ response' \in Responses
    /\ UNCHANGED <<conf, sdriver, landed, entered, start_path, start_requested, parse_out>>
    /\ UNCHANGED <<cands, got, money, sink_items, json_file, markup, product_nodes, btnvars, lifevars>>
    /\ UNCHANGED <<pipevars, lidervars, runvars>>
    /\ UNCHANGED <<envvars, locals, history, notes>>

\* line 260: the test for a blocked response
IsBlocked(r) == r.blocked_url \/ r.challenge_text

\* the request of lines 270-275 and the markers of lines 277-282 and 289-294
ReRequest == [kind |-> "request", url |-> UrlAt(1), dont_filter |-> TRUE]

BlockedMarker(title) == [kind |-> "_blocked", category_url |-> UrlAt(1), title |-> title]

\* parse, lines 252-299: for a blocked response, with a driver, the captcha
\* is tried through _load_page_with_selenium and the same URL is requested
\* again when that reports success; otherwise the response goes to
\* parse_products
Parse ==
    /\ xpc = "response"
    /\ IF IsBlocked(response)
       THEN IF sdriver
            THEN \E load \in Loads :
                   /\ landed' = load
                   /\ sdriver' = (load.window_open \/ load.reinit_ok)
                   /\ IF LoadPageWithSelenium(load)
                      THEN /\ parse_out' = <<ReRequest>>
                           /\ xpc' = "requested"
                      ELSE /\ parse_out' = <<BlockedMarker("")>>
                           /\ xpc' = "parsed"
            ELSE /\ parse_out' = <<BlockedMarker("")>>
                 /\ xpc' = "parsed"
                 /\ UNCHANGED <<landed, sdriver>>
       ELSE /\ parse_out' = ResponseItems[1][response.markup]
            /\ xpc' = "parsed"
            /\ UNCHANGED <<landed, sdriver>>
    /\ UNCHANGED <<conf, entered, start_path, start_requested, response>>
    /\ UNCHANGED <<cands, got, money, sink_items, json_file, markup, product_nodes, btnvars, lifevars>>
    /\ UNCHANGED <<pipevars, lidervars, runvars>>
    /\ UNCHANGED <<envvars, locals, history, notes>>

StartStep == StartRequests \/ Download \/ Parse

SinkStep == ProcessItem \/ CloseSpider

SpecExtract == InitExtract /\ [][ExtractStep \/ SelectNodes \/ ClassifyButton \/ SinkStep \/ LiderParse \/ StartStep]_vars

\* the framework keeps calling: a request issued is downloaded, a response
\* downloaded is parsed
FairSpecExtract == SpecExtract /\ WF_vars(StartStep)

\* the loop and the extraction on its own, side by side
SpecAll == (Init \/ InitExtract) /\ [][Next \/ ExtractStep \/ SelectNodes \/ ClassifyButton \/ SinkStep \/ LiderParse \/ StartStep]_vars

(***************************************************************************)
(* run_all_spiders_parallel.py.  main starts one thread per entry of       *)
(* SPIDERS; each thread runs 'scrapy crawl <name>' in a process of its own *)
(* (subprocess.run) and waits for it.  A crawl process builds its driver   *)
(* and, through JsonPipeline, writes the output file named after its       *)
(* spider.                                                                 *)
(***************************************************************************)
JsonFilenameShared(name) == <<"all", "_products.json">>

\* pipelines.py lines 26-39: the file name open_spider derives from spider.name
JsonFilename(name) == <<name, "_products.json">>

\* the driver handle a crawl process builds lives in that process
DriverOf(i) == <<"process", i>>

\* a thread has finished: run_spider returned
Finished == {"ok", "failed", "raised"}

MayJoinAny(state) == TRUE

\* line 115: thread.join() returns once the thread has finished
MayJoin(state) == state \in Finished

\* neither the loop nor any part that runs on its own is running
InitRun ==
    /\ LoopParked
    /\ xpc = "off"
    /\ cands = <<>>
    /\ got = <<>>
    /\ money = NoMoney
    /\ sink_items = <<>>
    /\ json_file = NoFile
    /\ markup = PageBlank
    /\ product_nodes = <<>>
    /\ button_in = ButtonPlain
    /\ verdict = TRUE
    /\ released = {}
    /\ spider_closed = FALSE
    /\ InputsFor(xpc)
    /\ StartIdle
    /\ PipeIdle
    /\ lider_yielded = <<>>
    /\ mpc = "start"
    /\ mi = 1
    /\ threads = [i \in 1..Len(SPIDERS) |-> "new"]
    /\ sessions = [i \in 1..Len(SPIDERS) |-> NoSession]

\* main, lines 101-111: the thread of the next spider is created and started;
\* after the last one main goes on to the joins
StartThread ==
    /\ mpc = "start"
    /\ threads' = [threads EXCEPT ![mi] = "started"]
    /\ IF mi < Len(SPIDERS)
       THEN /\ mi' = mi + 1
            /\ UNCHANGED mpc
       ELSE /\ mi' = 1
            /\ mpc' = "join"
    /\ UNCHANGED sessions
    /\ UNCHANGED <<envvars, locals, history, notes, parsevars, lifevars>>
    /\ UNCHANGED <<pipevars, lidervars, startvars>>

\* run_spider, lines 51-66 and 82-85: subprocess.run starts the crawl
\* process, or raises (handler of line 82)
Launch(i) ==
    /\ threads[i] = "started"
    /\ \E ok \in BOOLEAN :
         threads' = [threads EXCEPT ![i] = IF ok THEN "crawling" ELSE "raised"]
    /\ UNCHANGED <<mpc, mi, sessions>>
    /\ UNCHANGED <<envvars, locals, history, notes, parsevars, lifevars>>
    /\ UNCHANGED <<pipevars, lidervars, startvars>>

\* the crawl process of spider i builds its driver (start_requests)
BuildDriver(i) ==
    /\ threads[i] = "crawling"
    /\ sessions[i].driver = <<>>
    /\ sessions' = [sessions EXCEPT ![i].driver = DriverOf(i)]
    /\ UNCHANGED <<mpc, mi, threads>>
    /\ UNCHANGED <<envvars, locals, history, notes, parsevars, lifevars>>
    /\ UNCHANGED <<pipevars, lidervars, startvars>>

\* the crawl process of spider i ends: JsonPipeline.close_spider writes its
\* file when there were items (wrote), and run_spider sees the return code
\* (lines 71-80)
CrawlEnd(i) ==
    /\ threads[i] = "crawling"
    /\ \E wrote \in BOOLEAN, zero \in BOOLEAN :
         /\ sessions' = [sessions EXCEPT ![i].file =
                            IF wrote THEN JsonFilename(SPIDERS[i]) ELSE <<>>]
         /\ threads' = [threads EXCEPT ![i] = IF zero THEN "ok" ELSE "failed"]
    /\ UNCHANGED <<mpc, mi>>
    /\ UNCHANGED <<envvars, locals, history, notes, parsevars, lifevars>>
    /\ UNCHANGED <<pipevars, lidervars, startvars>>

\* main, lines 114-117: join the next thread; after the last one, the summary
JoinThread ==
    /\ mpc = "join"
    /\ MayJoin(threads[mi])
    /\ IF mi < Len(SPIDERS)
       THEN /\ mi' = mi + 1
            /\ UNCHANGED mpc
       ELSE /\ mi' = mi
            /\ mpc' = "summary"
    /\ UNCHANGED <<threads, sessions>>
    /\ UNCHANGED <<envvars, locals, history, notes, parsevars, lifevars>>
    /\ UNCHANGED <<pipevars, lidervars, startvars>>

Worker(i) == Launch(i) \/ BuildDriver(i) \/ CrawlEnd(i)

RunStep == StartThread \/ JoinThread \/ \E i \in 1..Len(SPIDERS) : Worker(i)

SpecRun == InitRun /\ [][RunStep]_vars

(***************************************************************************)
(* Properties                                                              *)
(***************************************************************************)

\* once the loop has ended nothing is fetched, clicked, reloaded, rebuilt or yielded
NothingAfterDone ==
    pc = "done" =>
        /\ pc' = "done"
        /\ UNCHANGED <<fetches, clicks, reinits, gets, handles, loc, yielded>>

\* what a run without any fault yields from location l on, page_number being n
RECURSIVE RefItems(_, _)
RefItems(l, n) ==
    IF ~LoopCondition(n) \/ ~PageAt(l).encodable THEN <<>>
    ELSE ParseProducts(PageAt(l), UrlAt(l))
         \o (IF ButtonAt(l) # 0 /\ IsButtonEnabled(Buttons[ButtonAt(l)], TRUE)
             THEN RefItems(ClickTarget(l), n + 1)
             ELSE <<>>)

\* C1: every execution of the pagination loop terminates, and it fetches at
\* most max_pages pages, also when the control is enabled on every page and
\* every click succeeds.
C1_TerminatesWithinCeiling == <>(pc = "done") /\ [](fetches <= max_pages)

\* C1 witness: a run that was stopped by the ceiling after max_pages fetches,
\* with no fault and no refused click
C1_Witness ==
    /\ pc = "done"
    /\ outcome = "ceiling"
    /\ fetches = max_pages
    /\ closes = 0
    /\ ~mishap

\* C2: when every session fault is followed by a successful reinitialization
\* and a successful re-navigation, and nothing else goes wrong, the loop yields
\* exactly what a run without faults yields.
C2_RecoveredRunYieldsSameRecords ==
    (/\ pc = "done"
     /\ outcome \in {"no_button", "disabled", "ceiling"}
     /\ closes >= 1
     /\ reinits = closes
     /\ handles = reinits + 1
     /\ gets = reinits
     /\ ~mishap)
    => yielded = RefItems(1, 1)

HasName(item) ==
    /\ "name" \in DOMAIN item
    /\ item.name # None
    /\ item.name # <<>>
    /\ item.name # SinNombre

\* C3 as stated: every item yielded by parse_products, on its own or through
\* the pagination loop, has a non-empty name other than 'Sin nombre'.
C3_EveryYieldedItemHasName ==
    /\ \A i \in 1..Len(got) : HasName(got[i])
    /\ \A i \in 1..Len(yielded) : HasName(yielded[i])

\* C3 amended: every item yielded by parse_products, on its own or through the
\* pagination loop, either has a non-empty name other than 'Sin nombre' or is
\* the _debug marker; the marker is yielded only for a page on which no
\* candidate node was found, and then it is all that is yielded.
C3_YieldedIsNamedOrDebugMarker ==
    /\ \A i \in 1..Len(got) : HasName(got[i]) \/ got[i].kind = "_debug"
    /\ \A i \in 1..Len(yielded) : HasName(yielded[i]) \/ yielded[i].kind = "_debug"
    /\ (\E i \in 1..Len(got) : got[i].kind = "_debug") => (cands = <<>> /\ Len(got) = 1)

\* C3 witness: a candidate without a usable name was extracted and nothing was yielded
C3_Witness ==
    /\ xpc = "extracted"
    /\ cands # <<>>
    /\ cands[1].texts # <<>>
    /\ RawText(cands[1]) # None
    /\ got = <<>>

\* C4: when no next-page control is found the loop ends after that page, and
\* nothing is fetched, clicked or reinitialized afterwards.
C4_NoControlEndsLoop ==
    [][ /\ (pc = "yield" /\ pending = <<>> /\ pc' # pc /\ next_button' = 0) => pc' = "done"
        /\ NothingAfterDone ]_vars

\* C4 witness: the loop ended on a page that was fetched and has no control
C4_Witness ==
    /\ pc = "done"
    /\ outcome = "no_button"
    /\ Responsive
    /\ fetches >= 1
    /\ ButtonAt(loc) = 0

\* C5: a control that is present but classified disabled ends the loop, and no
\* click of any kind is issued on it.
C5_DisabledControlNotClicked ==
    /\ [](clicks > 0 => (next_button # 0 /\ IsButtonEnabled(Buttons[next_button], TRUE)))
    /\ [][ /\ (pc = "classify" /\ pc' # pc
                /\ ~IsButtonEnabled(Buttons[next_button], Responsive))
              => (pc' = "done" /\ clicks' = clicks /\ loc' = loc)
           /\ NothingAfterDone ]_vars

\* C5 witness: the loop ended on a control whose class carries the disabled marker
C5_Witness ==
    /\ pc = "done"
    /\ outcome = "disabled"
    /\ Responsive
    /\ next_button # 0
    /\ Contains(Lower(OrEmpty(Buttons[next_button].class)), Disabled)
    /\ clicks = 0

\* C6: once page_number exceeds max_pages the loop exits: nothing is fetched,
\* extracted or navigated again, whatever the control.
C6_CeilingStopsLoop ==
    [][ page_number > max_pages =>
          /\ pc' = "done"
          /\ UNCHANGED <<fetches, yielded, pending, clicks, gets, reinits, loc, page_number>> ]_vars

\* C6 witness: the ceiling ended the loop while the control was still enabled
C6_Witness ==
    /\ pc = "done"
    /\ page_number = max_pages + 1
    /\ Responsive
    /\ ButtonAt(loc) # 0
    /\ IsButtonEnabled(Buttons[ButtonAt(loc)], TRUE)

\* the integer a literal stands for: '$' and '.' stripped
LiteralValue(lit) == PyInt(RemoveChar(RemoveChar(lit, "$"), "."))

\* C7: with U the distinct literals found: none gives no price and no
\* discount_price; one gives both equal to it; two or more give a
\* discount_price of least value and a price of greatest value among U.
C7_PriceIsMaxDiscountIsMin ==
    xpc = "extracted" =>
        LET U == money.literals
        IN  /\ \A i, j \in 1..Len(U) : U[i] = U[j] => i = j
            /\ Len(U) = 0 => (money.price = None /\ money.discount_price = None)
            /\ Len(U) = 1 => (money.price = U[1] /\ money.discount_price = U[1])
            /\ Len(U) >= 2 =>
                 /\ InSeq(money.price, U)
                 /\ InSeq(money.discount_price, U)
                 /\ \A i \in 1..Len(U) :
                      /\ LiteralValue(money.discount_price) <= LiteralValue(U[i])
                      /\ LiteralValue(U[i]) <= LiteralValue(money.price)

\* C7 witness: three literals, found in an order that is not the order of their values
C7_Witness ==
    /\ xpc = "extracted"
    /\ Len(money.literals) >= 3
    /\ LiteralValue(money.literals[1]) > LiteralValue(money.literals[2])
    /\ money.price # money.discount_price

\* C8: in recovery, when the re-navigation of the fresh driver to the last
\* known URL fails, the loop ends instead of fetching from the fresh driver.
C8_FailedReloadAborts ==
    [][ (pc = "reload" /\ pc' # pc /\ Truthy(last_url) /\ loc' # GetTarget(last_url))
        => pc' = "done" ]_vars

\* C9: a session fault detected by the window check leads to exactly one call
\* of _init_selenium_driver; when that call fails the loop ends, and nothing is
\* fetched, clicked or reinitialized afterwards.
C9_OneReinitThenStop ==
    /\ [](reinits <= closes)
    /\ [][ /\ (pc = "loop" /\ pc' # pc /\ LoopCondition(page_number) /\ ~Responsive)
              => (pc' = "reinit" /\ reinits' = reinits)
           /\ (pc = "reinit" /\ pc' # pc)
              => /\ reinits' = reinits + 1
                 /\ IF driver' = 0 THEN pc' = "done" ELSE pc' = "reload"
           /\ reinits' # reinits => pc \in {"reinit", "raised"}
           /\ NothingAfterDone ]_vars

\* C9 witness: the one reinitialization failed and the loop has ended
C9_Witness ==
    /\ pc = "done"
    /\ outcome = "reinit_failed"
    /\ reinits = 1
    /\ driver = 0

\* C10: a driver fault while page_source and current_url are read starts a
\* recovery; it does not end the loop.
C10_FetchFaultIsRecovered ==
    [][ (pc = "fetch" /\ pc' # pc /\ ~Responsive)
        => (pc' # "done" /\ (pc' = "reinit" \/ reinits' = reinits + 1)) ]_vars

\* C11: after a click that leaves the URL unchanged (also after the second
\* wait) the loop neither ends nor waits again: it scrolls, counts the page
\* and starts the next iteration; and the loop still ends in every run.
C11_UnchangedUrlCountsAsNextPage ==
    /\ [][ /\ (pc = "verify" /\ pc' # pc /\ closes' = closes /\ Responsive
                /\ UrlAt(loc) = current_url)
              => (pc' = "settle" /\ page_number' = page_number)
           /\ (pc = "settle" /\ pc' # pc /\ closes' = closes /\ Responsive)
              => (pc' = "loop" /\ page_number' = page_number + 1 /\ loc' = loc) ]_vars
    /\ <>(pc = "done")

\* C11 witness: without any fault or refused click, the click left the URL as
\* it was and the next iteration starts with the page counted
C11_Witness ==
    /\ pc = "loop"
    /\ page_number = 2
    /\ clicks = 1
    /\ Responsive
    /\ closes = 0
    /\ ~mishap
    /\ current_url # None
    /\ UrlAt(loc) = current_url

C13_NoCandidatesYieldsNothing ==
    /\ [](xpc = "extracted" /\ cands = <<>> => got = <<>>)
    /\ [][ /\ (pc = "fetch" /\ pc' = "yield" /\ ProductNodes(PageAt(loc)) = <<>>)
                => pending' = <<>>
           /\ (pc = "yield" /\ pc' # pc /\ closes' = closes)
                => (pending = <<>> /\ next_button' = FindNextPageButton
                    /\ (pc' = "done" => next_button' = 0)) ]_vars

\* C13 amended: for such a page parse_products yields no record but exactly
\* one item, the _debug marker (without a name); the loop hands it on and goes
\* on to look for the next-page control, ending only when there is none.
C13_NoCandidatesYieldsOnlyDebugMarker ==
    /\ [](xpc = "extracted" /\ cands = <<>>
            => (Len(got) = 1 /\ got[1].kind = "_debug" /\ ~HasName(got[1])))
    /\ [][ /\ (pc = "fetch" /\ pc' = "yield" /\ ProductNodes(PageAt(loc)) = <<>>)
                => (/\ Len(pending') = 1
                    /\ pending'[1].kind = "_debug"
                    /\ ~HasName(pending'[1])
                    /\ pending'[1].category_url = UrlAt(loc))
           /\ (pc = "yield" /\ pc' # pc /\ closes' = closes)
                => (pending = <<>> /\ next_button' = FindNextPageButton
                    /\ (pc' = "done" => next_button' = 0)) ]_vars

\* C13 witness: the first page had no candidate, its marker was yielded, the
\* control was found enabled and the direct click went through
C13_Witness ==
    /\ pc = "verify"
    /\ fetches = 1
    /\ ProductNodes(PageAt(1)) = <<>>
    /\ Len(yielded) = 1
    /\ yielded[1].kind = "_debug"
    /\ clicks = 1
    /\ closes = 0

\* an item is in the list
Received(item, items) == \E i \in 1..Len(items) : items[i] = item

\* C14: every item with a name that parse_products yields is handed to
\* JsonPipeline and is in the JSON output after close_spider, unless an earlier
\* yielded item has the same product_url.
C14_ValidRecordReachesJson ==
    xpc = "closed" =>
        \A i \in 1..Len(got) :
            HasName(got[i]) =>
                /\ Received(got[i], sink_items)
                /\ \/ json_file.written /\ Received(got[i], json_file.items)
                   \/ \E j \in 1..(i - 1) :
                        HasName(got[j]) /\ got[j].product_url = got[i].product_url

FetchedItems == ResponseItems[page_source][IF page_source = 0 THEN 1 ELSE site[page_source].markup]

\* C16: from the search for the control to the end of the navigation nothing
\* of the fetched page is left to yield: every item of that page is already
\* with the caller, as the last items yielded, before any click is issued.
C16_PageYieldedBeforeNavigation ==
    /\ [](pc \in {"classify", "scroll", "click", "js_click", "verify", "settle", "alt_click"}
            => /\ pending = <<>>
               /\ Len(yielded) >= Len(FetchedItems)
               /\ SubSeq(yielded, Len(yielded) - Len(FetchedItems) + 1, Len(yielded)) = FetchedItems)
    /\ [][(clicks' > clicks \/ page_number' # page_number) => (pending = <<>> /\ yielded' = yielded)]_vars

\* C16 witness: the first page's record is with the caller and the click to
\* the second page has been issued, long before the loop ends
C16_Witness ==
    /\ pc = "verify"
    /\ fetches = 1
    /\ clicks = 1
    /\ FetchedItems # <<>>
    /\ yielded = FetchedItems
    /\ loc = 2

\* the strategies that answer with at least one node
Matching(page) ==
    { k \in 1..NumProductXPaths : ~page.xp[k].raises /\ page.xp[k].nodes # <<>> }

\* C17: when some strategy yields a node, the candidates are exactly the
\* nodes of the first such strategy in PRODUCT_XPATHS order (a raising
\* strategy yields none), and nothing of a later strategy is among them.
C17_FirstMatchingStrategyWins ==
    (xpc = "selected" /\ Matching(markup) # {}) =>
        LET first == CHOOSE k \in Matching(markup) : \A j \in Matching(markup) : k <= j
        IN  /\ product_nodes = markup.xp[first].nodes
            /\ \A j \in Matching(markup) \ {first} :
                  \A i \in 1..Len(markup.xp[j].nodes) :
                     ~InSeq(markup.xp[j].nodes[i], product_nodes)

\* C17 witness: the first strategy raises, the second finds nothing, the third
\* and the fourth find nodes, and the candidates are those of the third
C17_Witness ==
    /\ xpc = "selected"
    /\ markup.xp[1].raises
    /\ markup.xp[2] = NoNodes
    /\ 3 \in Matching(markup)
    /\ 4 \in Matching(markup)
    /\ product_nodes = markup.xp[3].nodes

\* the hrefs of the product anchors of a page
HrefsOf(page) == { page.links[i].link.href_self : i \in 1..Len(page.links) }

\* C18: in the link fallback there is exactly one candidate per distinct
\* href, each the container of an anchor or the anchor itself, and no two
\* candidates stand for the same product target.
C18_OneCandidatePerTarget ==
    (xpc = "selected" /\ Matching(markup) = {} /\ markup.links # <<>>) =>
        /\ Len(product_nodes) = Cardinality(HrefsOf(markup))
        /\ \A j \in 1..Len(product_nodes) :
              \E i \in 1..Len(markup.links) :
                 product_nodes[j] = IF markup.links[i].container # <<>>
                                    THEN markup.links[i].container[1]
                                    ELSE markup.links[i].link
        /\ \A i, j \in 1..Len(product_nodes) :
              i # j => ProductUrl(product_nodes[i], UrlAt(1)) # ProductUrl(product_nodes[j], UrlAt(1))

\* the signals of the list: the disabled attribute, the 'disabled' marker in a
\* class attribute, not visible, a nested link whose href is absent, empty, '#'
\* or a no-op script reference, a nested link with aria-disabled
ListedSignal(b) ==
    \/ b.disabled # None /\ b.disabled # FalseStr
    \/ Contains(Lower(OrEmpty(b.class)), Disabled)
    \/ ~b.displayed
    \/ /\ b.has_link
       /\ \/ ~Truthy(b.href)
          \/ Strip(b.href) = <<>>
          \/ Strip(b.href) = <<"#">>
          \/ Contains(Lower(b.href), JsVoid)
          \/ Truthy(b.link_aria_disabled) /\ Lower(b.link_aria_disabled) = TrueStr
          \/ Contains(Lower(OrEmpty(b.link_class)), Disabled)

\* C19 as stated: the control is classified disabled exactly when a signal of
\* the list fires; in particular without a nested link and without a signal
\* it is classified enabled.
C19_DisabledIffListedSignal ==
    xpc = "classified" => (verdict = FALSE <=> ListedSignal(button_in))

\* C19 amended: the control is classified disabled exactly when a signal of
\* the list fires, or a call on the element raises, or the control has no
\* nested link and carries aria-disabled = true itself; an onclick attribute
\* changes nothing.
C19_DisabledIffSignalOrFaultOrOwnAria ==
    xpc = "classified" =>
        (verdict = FALSE <=>
            \/ ListedSignal(button_in)
            \/ button_in.stale
            \/ /\ ~button_in.has_link
               /\ Truthy(button_in.aria_disabled)
               /\ Lower(button_in.aria_disabled) = TrueStr)

\* C19 witness: no signal of the list fires and there is no nested link, yet
\* the control is classified disabled for its own aria-disabled
C19_Witness ==
    /\ xpc = "classified"
    /\ ~ListedSignal(button_in)
    /\ ~button_in.stale
    /\ ~button_in.has_link
    /\ button_in.aria_disabled = TrueUpper
    /\ verdict = FALSE

\* C20: once the session has ended, quit() has been called on every driver
\* handle that was acquired during it, the ones replaced during recovery
\* included.
C20_EveryHandleReleased ==
    spider_closed => released = 1..handles

\* C22: _last_url changes only in a fetch that read markup and URL without
\* fault, and is then the URL of the page fetched; a recovery issues
\* driver.get only with _last_url set and lands, when the get succeeds, on
\* the page _last_url names; with no page fetched yet it issues no get.
C22_LastUrlIsLastFetched ==
    [][/\ last_url' # last_url =>
            /\ pc = "fetch" /\ Responsive
            /\ fetches' = fetches + 1
            /\ last_url' = UrlAt(page_source')
            /\ page_source' = loc
       /\ gets' # gets =>
            /\ Truthy(last_url)
            /\ fetches >= 1
            /\ loc' # loc => loc' = GetTarget(last_url)
       /\ (pc = "reload" /\ pc' = "fetch" /\ ~Truthy(last_url)) => (gets' = gets /\ loc' = loc)
       /\ (pc = "reload" /\ pc' = "fetch" /\ Truthy(last_url)) =>
            (gets' = gets + 1 /\ current_url' = last_url)]_vars

\* C22 witness: after a fetch the window was lost, and the recovery has
\* brought the new browser to the page _last_url names
C22_Witness ==
    /\ pc = "fetch"
    /\ reinits >= 1
    /\ gets >= 1
    /\ Truthy(last_url)
    /\ loc # 0
    /\ loc = GetTarget(last_url)

\* C23: page_number starts at 1 and never decreases; it increases, by exactly
\* one, in the steps that complete a navigation (the scroll after a verified
\* click, or a successful action-chain click) and in no other; in a run
\* without faults the page being processed is page number page_number of
\* the site, or the last one once the site has no further page.
C23_PageNumberCountsNavigations ==
    /\ [][/\ page_number' >= page_number
          /\ page_number' # page_number =>
                /\ page_number' = page_number + 1
                /\ pc \in {"settle", "alt_click"} /\ pc' = "loop"
                /\ clicks' >= 1
          /\ (pc \in {"settle", "alt_click"} /\ pc' = "loop") => page_number' = page_number + 1]_vars
    /\ [](page_number >= 1)
    /\ []((closes = 0 /\ ~mishap /\ pc = "yield") =>
            /\ fetches = page_number
            /\ page_source = (IF page_number <= Len(site) THEN page_number ELSE Len(site)))

\* C23 witness: a run without faults is processing its second page
C23_Witness ==
    /\ closes = 0 /\ ~mishap
    /\ pc = "yield"
    /\ page_number = 2
    /\ page_source = 2
    /\ fetches = 2

\* the position in items of the first item that is no marker and has this product_url
FirstOf(items, url) ==
    CHOOSE i \in 1..Len(items) :
        /\ ~IsMarker(items[i]) /\ ItemGet(items[i], "product_url") = url
        /\ \A j \in 1..(i - 1) : IsMarker(items[j]) \/ ItemGet(items[j], "product_url") # url

\* C25: after close_spider, whatever was handed to process_item, the list
\* written holds no _blocked or _debug item and no two items of one
\* product_url; each item written is the first one received with its
\* product_url, and the items are written in the order received.
C25_JsonIsFirstOfEachUrlInOrder ==
    (xpc = "closed" /\ json_file.written) =>
        LET out == json_file.items
        IN  /\ \A i \in 1..Len(out) : ~IsMarker(out[i])
            /\ \A i, j \in 1..Len(out) : i # j => out[i].product_url # out[j].product_url
            /\ \A i \in 1..Len(out) :
                    /\ \E k \in 1..Len(sink_items) : sink_items[k] = out[i]
                    /\ out[i] = sink_items[FirstOf(sink_items, out[i].product_url)]
            /\ \A i, j \in 1..Len(out) :
                    i < j => FirstOf(sink_items, out[i].product_url)
                                < FirstOf(sink_items, out[j].product_url)

\* C25 witness: markers and a repeated product_url were received among
\* three items, and two items were written
C25_Witness ==
    /\ xpc = "closed"
    /\ Len(fed) = 3
    /\ IsMarker(fed[1])
    /\ ~IsMarker(fed[2]) /\ ~IsMarker(fed[3])
    /\ fed[2].product_url = fed[3].product_url
    /\ fed[2] # fed[3]
    /\ json_file.written
    /\ json_file.items = <<fed[2]>>

\* C26: the sheet saved by ExcelPipeline.close_spider holds the items of the
\* JSON output, the k-th item of the JSON list in row k + 1, and nothing else.
C26_SheetRowsFollowJsonOrder ==
    (xpc = "closed" /\ xlsx_file.written) =>
        /\ json_file.written
        /\ xlsx_file.cells = { <<k + 1, json_file.items[k]>> : k \in 1..Len(json_file.items) }

\* C24: LiderSpider.parse yields one product for every element found whose
\* name element has non-empty text, carrying that text as its name, and
\* skips only the elements without a name.
C24_NamedElementsAreYielded ==
    xpc = "lider_done" =>
        LET named == { i \in 1..Len(elements) :
                         elements[i].name # None /\ Truthy(Strip(elements[i].name)) }
        IN  /\ Len(lider_yielded) = Cardinality(named)
            /\ \A i \in named :
                    \E k \in 1..Len(lider_yielded) : lider_yielded[k].name = Strip(elements[i].name)

\* C27: start_requests issues the plain Scrapy request exactly when Selenium
\* was disabled or unavailable, no driver could be built, the page failed to
\* load or the Selenium branch raised; when the pagination loop ran and
\* returned it issues none, and then no response is ever parsed.
C27_ScrapyRequestIffSeleniumFailed ==
    /\ start_path # "none" =>
          /\ start_requested <=> start_path \in {"no_selenium", "no_driver", "load_failed", "raised"}
          /\ entered <=> start_path = "loop"
          /\ (start_path = "no_selenium") <=> ~(conf.use_selenium /\ conf.available)
          /\ ~(entered /\ start_requested)
    /\ entered => (xpc = "looped" /\ response = NoResponse /\ parse_out = <<>>)

\* C27 witness: the loop was entered through a good load, nothing requested
C27_Witness ==
    /\ xpc = "looped"
    /\ entered
    /\ ~start_requested
    /\ LoadPageWithSelenium(landed)

\* C28: for a blocked response parse yields no product: it yields one
\* _blocked marker, or one request for the same URL; and the cycle of
\* parse, solve and request ends.
C28_BlockedCycleEnds ==
    /\ []((xpc \in {"requested", "parsed"} /\ IsBlocked(response)) =>
            /\ Len(parse_out) = 1
            /\ parse_out[1].kind \in {"_blocked", "request"})
    /\ <>(xpc \notin {"start", "requested", "response"})

C30_SummaryAfterAllWorkers ==
    /\ mpc = "summary" => \A i \in 1..Len(SPIDERS) : threads[i] \in Finished
    /\ mpc \in {"join", "summary"} => \A i \in 1..Len(SPIDERS) : threads[i] # "new"
    /\ mpc = "start" =>
          /\ \A i \in 1..Len(SPIDERS) : (threads[i] = "new") <=> (i >= mi)
          /\ ENABLED StartThread
    /\ \A i \in 1..Len(SPIDERS) :
          /\ threads[i] = "started" => ENABLED Launch(i)
          /\ threads[i] = "crawling" => ENABLED CrawlEnd(i)

\* C30 witness: the summary was reached although one worker's crawl exited
\* non-zero and another worker's subprocess.run raised
C30_Witness ==
    /\ mpc = "summary"
    /\ threads[1] = "failed"
    /\ threads[2] = "raised"
    /\ threads[3] = "ok"

====
